---- MODULE Spec2Model ----
(***************************************************************************)
(* Model of tensorflow/dtensor/python/mesh_util.py: create_mesh and        *)
(* create_distributed_mesh.  A call is one atomic step: its arguments and  *)
(* the values the runtime returns are drawn from bounded sets, and the     *)
(* outcome (a mesh or a raised exception) is computed the way the code     *)
(* computes it.                                                            *)
(*                                                                         *)
(* Optional values: None is <<>>, a present value v is <<v>>.              *)
(* Strings that the code upper-cases are sequences of characters.          *)
(***************************************************************************)
EXTENDS Integers, Sequences, FiniteSets, TLC

VARIABLES op, args, env, result, cfg, meshes

vars == <<op, args, env, result, cfg, meshes>>

----------------------------------------------------------------------------
(* Bounds *)

MaxDevices == 4
MaxClients == 2
MaxClusterDevices == 6
MaxClusterClients == 3

----------------------------------------------------------------------------
(* Python / numpy helpers *)

None == <<>>
Some(v) == <<v>>
IsNone(o) == o = <<>>
Val(o) == o[1]

Min(a, b) == IF a < b THEN a ELSE b

UpperChar(c) ==
  CASE c = "c" -> "C"
    [] c = "g" -> "G"
    [] c = "p" -> "P"
    [] c = "t" -> "T"
    [] c = "u" -> "U"
    [] c = "x" -> "X"
    [] OTHER -> c

Upper(s) == [i \in 1..Len(s) |-> UpperChar(s[i])]

CPU == <<"C", "P", "U">>
GPU == <<"G", "P", "U">>
TPU == <<"T", "P", "U">>

RECURSIVE Product(_)
Product(s) == IF s = <<>> THEN 1 ELSE Head(s) * Product(Tail(s))

Arange(n) == [i \in 1..n |-> i - 1]

Unknown(shape) == {i \in 1..Len(shape) : shape[i] < 0}

Known(shape) ==
  Product([i \in 1..Len(shape) |-> IF shape[i] < 0 THEN 1 ELSE shape[i]])

(* a reshape that does not compare the sizes *)
Reshape_Unchecked(arr, shape) ==
  [ok |-> TRUE, array |-> [shape |-> shape, data |-> arr.data]]

Reshape(arr, shape) ==
  LET n == Len(arr.data)
      u == Unknown(shape)
      k == Known(shape)
  IN  IF Cardinality(u) > 1 THEN [ok |-> FALSE, array |-> arr]
      ELSE IF Cardinality(u) = 1
        THEN IF k = 0 \/ n % k # 0 THEN [ok |-> FALSE, array |-> arr]
             ELSE [ok |-> TRUE,
                   array |-> [shape |-> [i \in 1..Len(shape) |->
                                           IF shape[i] < 0 THEN n \div k
                                           ELSE shape[i]],
                              data |-> arr.data]]
        ELSE IF k # n THEN [ok |-> FALSE, array |-> arr]
             ELSE [ok |-> TRUE, array |-> [shape |-> shape, data |-> arr.data]]

NpArange(n) == [shape |-> <<n>>, data |-> Arange(n)]

Ravel(arr) == arr.data

Slice(s, a, b) ==
  LET lo == Min(a, Len(s))
      hi == Min(b, Len(s))
  IN  IF lo < hi THEN SubSeq(s, lo + 1, hi) ELSE <<>>

DimNames(mesh_dims) == [i \in 1..Len(mesh_dims) |-> mesh_dims[i][1]]
DimSizes(mesh_dims) == [i \in 1..Len(mesh_dims) |-> mesh_dims[i][2]]

----------------------------------------------------------------------------
(* Outcomes of a call *)

Mesh(dim_names, global_device_ids, local_device_ids, local_devices, mesh_name) ==
  [dim_names |-> dim_names,
   global_device_ids |-> global_device_ids,
   local_device_ids |-> local_device_ids,
   local_devices |-> local_devices,
   mesh_name |-> mesh_name]

NoLocals == [num_local_devices |-> 0, start_idx |-> 0, mesh_dims |-> <<>>]

Returned(mesh, reads, tpu, locals) ==
  [status |-> "mesh", error |-> "", mesh |-> Some(mesh), reads |-> reads,
   tpu_invoked |-> tpu, locals |-> locals]

Raised(kind, error, reads, tpu) ==
  [status |-> kind, error |-> error, mesh |-> None, reads |-> reads,
   tpu_invoked |-> tpu, locals |-> NoLocals]

----------------------------------------------------------------------------
(* Devices *)

(* A device string such as 'CPU:0' is its type and its index. *)
DeviceString(type, index) == [type |-> type, index |-> index]

(* tf_device.DeviceSpec.from_string('/job:localhost/replica:0/task:0/' + d) *)
FromStringLocalhost(d) ==
  [job |-> "localhost", replica |-> 0, task |-> 0,
   device_type |-> d.type, device_index |-> d.index]

(* tf_device.DeviceSpec.from_string(d.name) for the n logical devices the  *)
(* runtime lists for device_type.                                          *)
LogicalDeviceSpecs(device_type, n) ==
  [i \in 1..n |-> [job |-> "", replica |-> 0, task |-> 0,
                   device_type |-> device_type, device_index |-> i - 1]]

(* dtensor.local_devices(device_type, client_id): the num_available local  *)
(* devices of this client.                                                 *)
LocalDevices(device_type, client_id, num_available) ==
  [i \in 1..num_available |-> [job |-> "worker", replica |-> 0, task |-> client_id,
                               device_type |-> Upper(device_type),
                               device_index |-> i - 1]]

----------------------------------------------------------------------------
(* create_mesh *)

ResolveDevices(devices, device_type, num_logical) ==
  IF IsNone(devices)
    THEN LogicalDeviceSpecs(IF IsNone(device_type) THEN CPU ELSE Val(device_type),
                            num_logical)
    ELSE [i \in 1..Len(Val(devices)) |-> FromStringLocalhost(Val(devices)[i])]

ConflictingDevices(devs, device_type) ==
  Upper(device_type) # Upper(devs[1].device_type)

(* the -1 case losing the caller's dimension name *)
DefaultMeshDims_Renamed(mesh_dims, n) ==
  IF IsNone(mesh_dims) \/ (Len(Val(mesh_dims)) = 1 /\ Val(mesh_dims)[1][2] = -1)
    THEN << <<"x", n>> >>
    ELSE Val(mesh_dims)

DefaultMeshDims(mesh_dims, n) ==
  IF IsNone(mesh_dims) THEN << <<"x", n>> >>
  ELSE IF Len(Val(mesh_dims)) = 1 /\ Val(mesh_dims)[1][2] = -1
    THEN << <<Val(mesh_dims)[1][1], n>> >>
    ELSE Val(mesh_dims)

CreateMeshOutcome(mesh_dims, mesh_name, devices, device_type, num_logical) ==
  LET devs == ResolveDevices(devices, device_type, num_logical)
      reads == IF IsNone(devices) THEN {"list_logical_devices"} ELSE {}
      dims == DefaultMeshDims(mesh_dims, Len(devs))
      r == Reshape(NpArange(Len(devs)), DimSizes(dims))
  IN  IF ~IsNone(devices) /\ devs = <<>>
        THEN Raised("IndexError", "devices[0]", reads, FALSE)
      ELSE IF ~IsNone(devices)
              /\ ConflictingDevices(devs, IF IsNone(device_type)
                                            THEN devs[1].device_type
                                            ELSE Val(device_type))
        THEN Raised("ValueError", "conflicting devices", reads, FALSE)
      ELSE IF ~r.ok
        THEN Raised("ValueError", "reshape", reads, FALSE)
      ELSE IF devs = <<>>
        THEN Raised("IndexError", "devices[0]", reads, FALSE)
      ELSE Returned(Mesh(DimNames(dims), r.array, Ravel(r.array), devs, mesh_name),
                    reads, FALSE,
                    [num_local_devices |-> Len(devs), start_idx |-> 0,
                     mesh_dims |-> dims])

----------------------------------------------------------------------------
(* create_distributed_mesh *)

IsCpuOrGpu(device_type) == Upper(device_type) \in {CPU, GPU}
(* every type that is not CPU or GPU taken for TPU *)
IsTpu_Fallthrough(device_type) == Upper(device_type) \notin {CPU, GPU}

IsTpu(device_type) == Upper(device_type) = TPU

(* offsets that ignore the slice length, or add instead of multiply *)
StartIdx_ClientId(num_local_devices, client_id) == client_id
StartIdx_Sum(num_local_devices, client_id) == num_local_devices + client_id

StartIdx(num_local_devices, client_id) == num_local_devices * client_id

(* a slice with no end *)
LocalDeviceIds_ToEnd(flattened, num_local_devices, client_id) ==
  Slice(flattened, StartIdx(num_local_devices, client_id), Len(flattened))

LocalDeviceIds(flattened, num_local_devices, client_id) ==
  Slice(flattened, StartIdx(num_local_devices, client_id),
        StartIdx(num_local_devices, client_id) + num_local_devices)

(* >= in place of > *)
NotEnoughDevices_OffByOne(num_local_devices, num_available_devices) ==
  num_local_devices >= num_available_devices

NotEnoughDevices(num_local_devices, num_available_devices) ==
  num_local_devices > num_available_devices

(* > in place of >= *)
BadClientId_OffByOne(client_id, num_clients) ==
  client_id < 0 \/ client_id > num_clients

BadClientId(client_id, num_clients) == client_id < 0 \/ client_id >= num_clients

(* the client_id check left out *)
TpuArgsSupplied_NoClientId(num_global_devices, num_clients, client_id) ==
  ~IsNone(num_global_devices) \/ ~IsNone(num_clients)

TpuArgsSupplied(num_global_devices, num_clients, client_id) ==
  ~IsNone(num_global_devices) \/ ~IsNone(num_clients) \/ ~IsNone(client_id)

(* a: the arguments of the call.  e: what the runtime answers when asked:  *)
(* num_global_devices, num_clients, client_id, num_local_devices, and      *)
(* whether create_tpu_mesh succeeds.                                       *)
CpuGpuMeshOutcome(a, e) ==
  LET N == IF IsNone(a.num_global_devices) THEN e.num_global_devices
           ELSE Val(a.num_global_devices)
      C == IF IsNone(a.num_clients) THEN e.num_clients ELSE Val(a.num_clients)
      id == IF IsNone(a.client_id) THEN e.client_id ELSE Val(a.client_id)
      rN == IF IsNone(a.num_global_devices) THEN {"num_global_devices"} ELSE {}
      rC == rN \cup (IF IsNone(a.num_clients) THEN {"num_clients"} ELSE {})
      rI == rC \cup (IF IsNone(a.client_id) THEN {"client_id"} ELSE {})
      rA == rI \cup {"num_local_devices"}
      rL == rA \cup {"local_devices"}
  IN  IF N <= 0 THEN Raised("ValueError", "num_global_devices", rN, FALSE)
      ELSE IF C <= 0 THEN Raised("ValueError", "num_clients", rC, FALSE)
      ELSE IF BadClientId(id, C) THEN Raised("ValueError", "client_id", rI, FALSE)
      ELSE IF N % C # 0 THEN Raised("ValueError", "divisible", rI, FALSE)
      ELSE LET num_local_devices == N \div C
               local_devices ==
                 Slice(LocalDevices(a.device_type, id, e.num_local_devices),
                       0, num_local_devices)
               r == Reshape(NpArange(N), DimSizes(a.mesh_dims))
           IN  IF NotEnoughDevices(num_local_devices, e.num_local_devices)
                 THEN Raised("ValueError", "not enough devices", rA, FALSE)
               ELSE IF ~r.ok THEN Raised("ValueError", "reshape", rL, FALSE)
               ELSE Returned(Mesh(DimNames(a.mesh_dims), r.array,
                                  LocalDeviceIds(Ravel(r.array),
                                                 num_local_devices, id),
                                  local_devices, a.mesh_name),
                             rL, FALSE,
                             [num_local_devices |-> num_local_devices,
                              start_idx |-> StartIdx(num_local_devices, id),
                              mesh_dims |-> a.mesh_dims])

(* The mesh of create_tpu_mesh is built outside this file: only its names  *)
(* and the requested shape are kept.                                       *)
TpuMeshOutcome(a, e) ==
  IF TpuArgsSupplied(a.num_global_devices, a.num_clients, a.client_id)
    THEN Raised("ValueError", "tpu arguments", {}, FALSE)
  ELSE IF ~e.tpu_ok THEN Raised("ValueError", "create_tpu_mesh", {}, TRUE)
  ELSE Returned(Mesh(DimNames(a.mesh_dims),
                     [shape |-> DimSizes(a.mesh_dims), data |-> <<>>],
                     <<>>, <<>>, a.mesh_name),
                {"num_global_devices", "num_clients", "client_id"}, TRUE,
                [num_local_devices |-> 0, start_idx |-> 0,
                 mesh_dims |-> a.mesh_dims])

CreateDistributedMeshOutcome(a, e) ==
  IF IsCpuOrGpu(a.device_type) THEN CpuGpuMeshOutcome(a, e)
  ELSE IF IsTpu(a.device_type) THEN TpuMeshOutcome(a, e)
  ELSE Raised("ValueError", "unsupported device type", {}, FALSE)

----------------------------------------------------------------------------
(* Inputs *)

Lower(t) ==
  [i \in 1..Len(t) |->
     CASE t[i] = "C" -> "c" [] t[i] = "G" -> "g" [] t[i] = "P" -> "p"
       [] t[i] = "T" -> "t" [] t[i] = "U" -> "u" [] OTHER -> t[i]]

XPU == <<"X", "P", "U">>

DistDeviceTypes == {CPU, Lower(GPU), TPU, Lower(TPU), XPU}
MeshDeviceTypes == {CPU, GPU, Lower(CPU)}

DimName(i) == IF i = 1 THEN "batch" ELSE "model"

(* mesh_dims of rank 0, 1 and 2 with sizes -1, 0 and 1..n *)
MeshDimsUpTo(n) ==
  LET sizes == {-1, 0} \cup 1..n
  IN  {<<>>}
        \cup {<< <<DimName(1), a>> >> : a \in sizes}
        \cup {<< <<DimName(1), a>>, <<DimName(2), b>> >> : a \in sizes, b \in sizes}

MeshDimsSet == MeshDimsUpTo(MaxDevices)
ClusterMeshDimsSet == MeshDimsUpTo(MaxClusterDevices)

MeshNames == {"", "m"}

Optional(S) == {None} \cup {Some(v) : v \in S}

(* n device strings of type t, except that the k-th one has type t2 *)
DeviceList(n, t, k, t2) ==
  [i \in 1..n |-> DeviceString(IF i = k THEN t2 ELSE t, i - 1)]

DeviceLists ==
  {DeviceList(n, t, k, t2) :
     n \in 0..MaxDevices, t \in MeshDeviceTypes, k \in 1..MaxDevices,
     t2 \in MeshDeviceTypes}

EnvCounts == 0..MaxDevices
EnvClients == 0..MaxClients
EnvClientIds == -1..MaxClients

EnvSeen(e, reads) == [k \in reads |-> e[k]]

(* The cluster coordinates the call leaves to the environment variables *)
Defaulted(a) ==
  {k \in {"num_global_devices", "num_clients", "client_id"} : IsNone(a[k])}

NotCalled == Raised("not called", "", {}, FALSE)

----------------------------------------------------------------------------
(* Single calls *)

Init ==
  /\ op = "none"
  /\ args = <<>>
  /\ env = <<>>
  /\ result = NotCalled
  /\ cfg = <<>>
  /\ meshes = <<>>

CreateMesh ==
  /\ op = "none"
  /\ \E mesh_dims \in Optional(MeshDimsSet), mesh_name \in MeshNames,
     devices \in Optional(DeviceLists), device_type \in Optional(MeshDeviceTypes) :
    \E n \in (IF IsNone(devices) THEN EnvCounts ELSE {0}) :
      LET e == [list_logical_devices |-> n]
          r == CreateMeshOutcome(mesh_dims, mesh_name, devices, device_type, n)
      IN  /\ op' = "create_mesh"
          /\ args' = [mesh_dims |-> mesh_dims, mesh_name |-> mesh_name,
                      devices |-> devices, device_type |-> device_type]
          /\ env' = EnvSeen(e, r.reads)
          /\ result' = r
          /\ UNCHANGED <<cfg, meshes>>

CreateDistributedMesh ==
  /\ op = "none"
  /\ \E mesh_dims \in MeshDimsSet, mesh_name \in MeshNames,
     num_global_devices \in Optional(0..MaxDevices),
     num_clients \in Optional(0..MaxClients),
     client_id \in Optional(-1..MaxClients),
     device_type \in DistDeviceTypes :
    \E eN \in (IF IsNone(num_global_devices) THEN EnvCounts ELSE {0}),
       eC \in (IF IsNone(num_clients) THEN EnvClients ELSE {0}),
       eI \in (IF IsNone(client_id) THEN EnvClientIds ELSE {0}),
       eA \in (IF IsCpuOrGpu(device_type) THEN EnvCounts ELSE {0}),
       ok \in (IF IsTpu(device_type) THEN BOOLEAN ELSE {TRUE}) :
      LET e == [num_global_devices |-> eN, num_clients |-> eC, client_id |-> eI,
                num_local_devices |-> eA, local_devices |-> eA, tpu_ok |-> ok]
          a == [mesh_dims |-> mesh_dims, mesh_name |-> mesh_name,
                num_global_devices |-> num_global_devices,
                num_clients |-> num_clients, client_id |-> client_id,
                device_type |-> device_type]
          r == CreateDistributedMeshOutcome(a, e)
      IN  /\ op' = "create_distributed_mesh"
          /\ args' = a
          /\ env' = EnvSeen(e, r.reads \cup Defaulted(args'))
          /\ result' = r
          /\ UNCHANGED <<cfg, meshes>>

(* The caller takes the mesh or the exception; the module keeps no state. *)
Return ==
  /\ op # "none"
  /\ op' = "none"
  /\ args' = <<>>
  /\ env' = <<>>
  /\ result' = NotCalled
  /\ UNCHANGED <<cfg, meshes>>

Next == CreateMesh \/ CreateDistributedMesh \/ Return

Spec == Init /\ [][Next]_vars

----------------------------------------------------------------------------
(* A cluster: every client calls create_distributed_mesh with the same      *)
(* mesh_dims, num_global_devices and num_clients, and its own client_id.    *)

ClusterDeviceTypes == {CPU, Lower(GPU)}

InitCluster ==
  /\ op = "none"
  /\ args = <<>>
  /\ env = <<>>
  /\ result = NotCalled
  /\ \E mesh_dims \in ClusterMeshDimsSet, N \in 1..MaxClusterDevices,
        C \in 1..MaxClusterClients,
        device_type \in ClusterDeviceTypes :
       /\ N % C = 0
       /\ cfg = [mesh_dims |-> mesh_dims, num_global_devices |-> N,
                 num_clients |-> C, device_type |-> device_type]
       /\ meshes = [i \in 0..(C - 1) |-> NotCalled]

ClientCreatesMesh(i) ==
  \E eA \in 0..MaxClusterDevices :
    LET e == [num_global_devices |-> 0, num_clients |-> 0, client_id |-> 0,
              num_local_devices |-> eA, local_devices |-> eA, tpu_ok |-> TRUE]
        a == [mesh_dims |-> cfg.mesh_dims, mesh_name |-> "",
              num_global_devices |-> Some(cfg.num_global_devices),
              num_clients |-> Some(cfg.num_clients), client_id |-> Some(i),
              device_type |-> cfg.device_type]
        r == CreateDistributedMeshOutcome(a, e)
    IN  /\ meshes' = [meshes EXCEPT ![i] = r]
        /\ UNCHANGED <<op, args, env, result, cfg>>

NextCluster == \E i \in DOMAIN meshes : ClientCreatesMesh(i)

SpecCluster == InitCluster /\ [][NextCluster]_vars

----------------------------------------------------------------------------
(* Vocabulary of the properties *)

IsCreateMesh == op = "create_mesh"
IsDistributed == op = "create_distributed_mesh"
IsCpuGpuCall == IsDistributed /\ IsCpuOrGpu(args.device_type)
IsTpuCall == IsDistributed /\ IsTpu(args.device_type)

ReturnedMesh == result.status = "mesh"
RaisedValueError == result.status = "ValueError" /\ IsNone(result.mesh)
TheMesh == Val(result.mesh)

(* explicitly passed, or environment-derived when omitted *)
Effective(k) == IF IsNone(args[k]) THEN env[k] ELSE Val(args[k])

Range(s) == {s[i] : i \in DOMAIN s}

(* C1: a CPU/GPU create_distributed_mesh call that returns a mesh, with    *)
(* N > 0, C > 0 and N % C = 0, has exactly N / C local device ids and at   *)
(* most N / C local devices.                                               *)
C1_LocalCount ==
  (IsCpuGpuCall /\ ReturnedMesh
     /\ Effective("num_global_devices") > 0 /\ Effective("num_clients") > 0
     /\ Effective("num_global_devices") % Effective("num_clients") = 0)
  => LET q == Effective("num_global_devices") \div Effective("num_clients")
     IN  /\ Len(TheMesh.local_device_ids) = q
         /\ Len(TheMesh.local_devices) <= q

C1_Witness ==
  /\ IsCpuGpuCall /\ ReturnedMesh
  /\ Effective("num_global_devices") = 4 /\ Effective("num_clients") = 2
  /\ Effective("client_id") = 1
  /\ Len(TheMesh.local_device_ids) = 2

(* C4: a CPU/GPU create_distributed_mesh call whose effective client_id is *)
(* below 0 or not below the effective num_clients raises a ValueError and  *)
(* builds no mesh.                                                         *)
C4_ClientIdOutOfRange ==
  (IsCpuGpuCall
     /\ (Effective("client_id") < 0
           \/ Effective("client_id") >= Effective("num_clients")))
  => RaisedValueError

C4_Witness ==
  /\ IsCpuGpuCall
  /\ Effective("num_global_devices") = 4 /\ Effective("num_clients") = 2
  /\ Effective("client_id") = 2
  /\ RaisedValueError /\ result.error = "client_id"

(* C5: a TPU create_distributed_mesh call with num_global_devices,         *)
(* num_clients or client_id supplied raises a ValueError and never invokes *)
(* create_tpu_mesh; create_tpu_mesh is invoked only when all three are     *)
(* None.                                                                   *)
C5_TpuArgsForbidden ==
  /\ (IsTpuCall /\ (~IsNone(args.num_global_devices) \/ ~IsNone(args.num_clients)
                      \/ ~IsNone(args.client_id)))
       => (RaisedValueError /\ ~result.tpu_invoked)
  /\ (IsDistributed /\ result.tpu_invoked)
       => (IsNone(args.num_global_devices) /\ IsNone(args.num_clients)
             /\ IsNone(args.client_id))

C5_Witness ==
  /\ IsTpuCall /\ args.device_type = Lower(TPU)
  /\ IsNone(args.num_global_devices) /\ IsNone(args.num_clients)
  /\ args.client_id = Some(0)
  /\ RaisedValueError /\ result.error = "tpu arguments"

(* C6: a create_distributed_mesh call whose device_type is, ignoring case, *)
(* none of CPU, GPU, TPU raises a ValueError, builds no mesh and queries   *)
(* neither the environment nor the devices.                                *)
C6_UnsupportedDeviceType ==
  (IsDistributed /\ Upper(args.device_type) \notin {CPU, GPU, TPU})
  => (RaisedValueError /\ result.reads = {} /\ ~result.tpu_invoked)

C6_Witness ==
  /\ IsDistributed /\ args.device_type = XPU
  /\ IsNone(args.num_global_devices) /\ IsNone(args.num_clients)
  /\ IsNone(args.client_id)
  /\ RaisedValueError /\ result.error = "unsupported device type"

(* C3: create_mesh raises a ValueError and returns no mesh when explicit   *)
(* devices come with a device_type that differs, ignoring case, from the   *)
(* type of any device of the list, the first or a later one.               *)
C3_MismatchAlwaysRaises ==
  (IsCreateMesh /\ ~IsNone(args.devices) /\ ~IsNone(args.device_type)
     /\ \E i \in DOMAIN Val(args.devices) :
          Upper(Val(args.device_type)) # Upper(Val(args.devices)[i].type))
  => RaisedValueError

(* The global device count of the call *)
GlobalCount ==
  IF IsCreateMesh THEN Len(TheMesh.local_devices)
  ELSE Effective("num_global_devices")

(* C7 as claimed: every mesh returned by create_mesh or by a CPU/GPU       *)
(* create_distributed_mesh has mesh_dims sizes whose product is the global *)
(* device count, a size of -1 included.                                    *)
C7_MeshDimsProduct ==
  ((IsCreateMesh \/ IsCpuGpuCall) /\ ReturnedMesh)
  => Product(DimSizes(result.locals.mesh_dims)) = GlobalCount

(* C7 as amended: the sizes of the returned global id grid multiply to the *)
(* global device count; they are the mesh_dims sizes with a single -1      *)
(* replaced by the count divided by the product of the others; mesh_dims   *)
(* without a negative size that do not multiply to the count, or with two  *)
(* negative sizes, give no mesh.                                           *)
C7_GridShapeProduct ==
  ((IsCreateMesh \/ IsCpuGpuCall) /\ ReturnedMesh)
  => LET sizes == DimSizes(result.locals.mesh_dims)
         shape == TheMesh.global_device_ids.shape
     IN  /\ Product(shape) = GlobalCount
         /\ Len(TheMesh.global_device_ids.data) = GlobalCount
         /\ Len(shape) = Len(sizes)
         /\ Len(TheMesh.dim_names) = Len(sizes)
         /\ Cardinality(Unknown(sizes)) <= 1
         /\ \A i \in DOMAIN sizes :
              IF sizes[i] < 0 THEN shape[i] * Known(sizes) = GlobalCount
              ELSE shape[i] = sizes[i]
         /\ Unknown(sizes) = {} => Product(sizes) = GlobalCount

C7_Witness ==
  /\ IsCpuGpuCall /\ ReturnedMesh
  /\ DimSizes(args.mesh_dims) = <<2, -1>>
  /\ TheMesh.global_device_ids.shape = <<2, 2>>
  /\ Effective("num_global_devices") = 4

(* C8: a CPU/GPU create_distributed_mesh call that gets as far as counting *)
(* the local devices raises a ValueError and builds no mesh when           *)
(* num_global_devices / num_clients exceeds the available count; otherwise *)
(* that check lets it pass, and a returned mesh holds exactly the first    *)
(* num_local_devices local devices.                                        *)
C8_EnoughDevices ==
  (IsCpuGpuCall /\ "num_local_devices" \in result.reads)
  => LET q == Effective("num_global_devices") \div Effective("num_clients")
     IN  /\ q > env.num_local_devices
              => (RaisedValueError /\ result.error = "not enough devices")
         /\ q <= env.num_local_devices
              => /\ result.error # "not enough devices"
                 /\ ReturnedMesh =>
                      /\ Len(TheMesh.local_devices) = q
                      /\ \A i \in 1..q :
                           /\ TheMesh.local_devices[i].device_index = i - 1
                           /\ TheMesh.local_devices[i].task = Effective("client_id")

C8_Witness ==
  /\ IsCpuGpuCall /\ ReturnedMesh
  /\ Effective("num_global_devices") = 4 /\ Effective("num_clients") = 2
  /\ env.num_local_devices = 2
  /\ Len(TheMesh.local_devices) = 2

(* C9: create_mesh with mesh_dims missing, or one dimension of size -1,    *)
(* returns a one-dimensional mesh over all resolved devices, named 'x' or  *)
(* by the caller's name, whose local device ids are 0..len(devices)-1.     *)
C9_DefaultDims ==
  (IsCreateMesh /\ ReturnedMesh
     /\ (IsNone(args.mesh_dims)
           \/ (Len(Val(args.mesh_dims)) = 1 /\ Val(args.mesh_dims)[1][2] = -1)))
  => LET n == IF IsNone(args.devices) THEN env.list_logical_devices
              ELSE Len(Val(args.devices))
     IN  /\ TheMesh.global_device_ids.shape = <<n>>
         /\ Len(TheMesh.local_devices) = n
         /\ TheMesh.dim_names =
              IF IsNone(args.mesh_dims) THEN <<"x">>
              ELSE <<Val(args.mesh_dims)[1][1]>>
         /\ TheMesh.local_device_ids = [i \in 1..n |-> i - 1]
         /\ IsNone(args.devices) =>
              \A i \in 1..n :
                TheMesh.local_devices[i].device_type =
                  (IF IsNone(args.device_type) THEN CPU ELSE Val(args.device_type))

C9_Witness ==
  /\ IsCreateMesh /\ ReturnedMesh
  /\ args.mesh_dims = Some(<< <<"batch", -1>> >>)
  /\ IsNone(args.devices) /\ IsNone(args.device_type)
  /\ TheMesh.dim_names = <<"batch">>
  /\ TheMesh.local_device_ids = <<0, 1, 2>>

----------------------------------------------------------------------------
(* Properties of the cluster *)

Clients == DOMAIN meshes
HasMesh(i) == meshes[i].status = "mesh"
LocalIds(i) == Val(meshes[i].mesh).local_device_ids
Flattened(i) == Val(meshes[i].mesh).global_device_ids.data

(* C2: with num_global_devices and num_clients fixed, the slices of client *)
(* i and client i+1 are contiguous and do not overlap: the slice of client *)
(* i ends at the index where that of client i+1 begins, and they share no  *)
(* device id.                                                              *)
C2_ContiguousSlices ==
  \A i \in Clients :
    (i + 1 \in Clients /\ HasMesh(i) /\ HasMesh(i + 1))
    => LET a == meshes[i].locals.start_idx
           b == meshes[i + 1].locals.start_idx
       IN  /\ a + Len(LocalIds(i)) = b
           /\ LocalIds(i) = SubSeq(Flattened(i), a + 1, b)
           /\ LocalIds(i + 1) =
                SubSeq(Flattened(i + 1), b + 1, b + Len(LocalIds(i + 1)))
           /\ Len(LocalIds(i)) > 0 /\ Len(LocalIds(i + 1)) > 0
           /\ Range(LocalIds(i)) \cap Range(LocalIds(i + 1)) = {}

C2_Witness ==
  /\ cfg.num_global_devices = 6 /\ cfg.num_clients = 3
  /\ HasMesh(1) /\ HasMesh(2)
  /\ LocalIds(1) = <<2, 3>> /\ LocalIds(2) = <<4, 5>>

(* C10: the local device ids of the clients 0..C-1 partition the global    *)
(* ids 0..N-1: client i owns exactly i*(N/C) .. (i+1)*(N/C)-1 in           *)
(* increasing order, and every global id belongs to exactly one client.    *)
C10_Partition ==
  LET N == cfg.num_global_devices
      q == cfg.num_global_devices \div cfg.num_clients
  IN  /\ \A i \in Clients :
           HasMesh(i) => LocalIds(i) = [k \in 1..q |-> i * q + k - 1]
      /\ (\A i \in Clients : HasMesh(i))
           => \A g \in 0..(N - 1) :
                Cardinality({i \in Clients : g \in Range(LocalIds(i))}) = 1

C10_Witness ==
  /\ cfg.num_global_devices = 6 /\ cfg.num_clients = 3
  /\ DimSizes(cfg.mesh_dims) = <<2, 3>>
  /\ \A i \in Clients : HasMesh(i)
  /\ LocalIds(0) = <<0, 1>> /\ LocalIds(2) = <<4, 5>>

====
